---- MODULE Spec2Model ----
(***************************************************************************)
(* Text-to-audio converter: the text splitter (text_processor.py), the     *)
(* token manager (auth.py), the rate limiter and the synthesis loop        *)
(* (synthesizer.py).                                                       *)
(*                                                                         *)
(* A Python string is a sequence of one-character strings.                 *)
(***************************************************************************)
EXTENDS Integers, Sequences, FiniteSets, TLC

VARIABLES
    \* ---- text splitter (TextSplitter.split_text)
    text,               \* the input text
    max_chunk_size,     \* TextSplitter.max_chunk_size
    text_chunks,        \* the list split_text returned
    split_pc,           \* "start" | "done" (split_text returned) | "processed" (process_text returned) | "error" (TextProcessorError)
    clean_text,         \* what clean_text_for_synthesis(text) returned
    clean_pc,           \* "start" | "cleaned" (clean_text_for_synthesis returned)
    \* ---- synthesis loop (SpeechSynthesizer.synthesize_chunks)
    chunks,             \* the TextChunk list given to synthesize_chunks
    synth_mode,         \* per chunk, how model.synthesize behaves: "ok" | "fail" | "flaky"
    max_retries,        \* SpeechSynthesizer.max_retries
    pc,                 \* where synthesize_chunks stands
    cur,                \* position (1-based) of the chunk of the for loop
    attempt,            \* the attempt variable of synthesize_chunk's for loop
    audio_files,        \* the local list audio_files
    successful_chunks,  \* the local counter successful_chunks
    valid_audio_files,  \* the list synthesize_chunks returned
    calls,              \* per chunk, the model.synthesize invocations so far
    grants,             \* per chunk, the rate_limiter.wait_if_needed calls so far
    failed,             \* positions whose synthesize_chunk call raised
    retry_delay,        \* SpeechSynthesizer.retry_delay, in ticks
    exchange_mode,      \* how the identity endpoint answers a refresh: "ok" | "flaky"
    events,             \* what the current (or last) call of synthesize_chunk did, in order
    sdk_token,          \* the token the SDK was configured with: "valid" | "fresh" | "expired"
    expiries,           \* how many times the SDK's token expired so far
    \* ---- token manager (TokenManager)
    clock,              \* datetime.now(), in minutes
    iam_token,          \* TokenManager.iam_token (<<>> when None)
    token_expires_at,   \* TokenManager.token_expires_at (-1 when None)
    exchanges,          \* requests sent to the identity endpoint so far
    token_log,          \* the calls of get_iam_token so far, one record each
    \* ---- rate limiter (RateLimiter)
    callers,            \* the execution contexts that call wait_if_needed
    rl_time,            \* time.time(), in ticks
    min_interval,       \* RateLimiter.min_interval, in ticks
    last_request_time,  \* RateLimiter.last_request_time
    rl_pc,              \* per caller: "idle" | "check" | "sleeping" | "grant"
    current_time,       \* per caller: the local current_time
    wake_at,            \* per caller: when its time.sleep may return
    slept,              \* per caller: whether this call slept
    grant_log,          \* the grants so far: [at, by, slept]
    \* ---- the application (TextToAudioApp.run)
    credentials,        \* the YANDEX_* environment variables
    run_pc,             \* the step of run that comes next
    run_log,            \* the steps of run taken so far
    run_result          \* what run returned: "True" | "False" ("none" while it runs)

split_vars == <<text, max_chunk_size, text_chunks, split_pc, clean_text, clean_pc>>

synth_vars == <<chunks, synth_mode, max_retries, pc, cur, attempt, audio_files,
                successful_chunks, valid_audio_files, calls, grants, failed,
                retry_delay, exchange_mode, events, sdk_token, expiries>>

token_vars == <<clock, iam_token, token_expires_at, exchanges, token_log>>

rate_vars == <<callers, rl_time, min_interval, last_request_time, rl_pc,
               current_time, wake_at, slept, grant_log>>

run_vars == <<credentials, run_pc, run_log, run_result>>

vars == <<split_vars, synth_vars, token_vars, rate_vars, run_vars>>

(***************************************************************************)
(* Bounds of the model.                                                    *)
(***************************************************************************)
MaxTextLen == 6
MaxSize == 3
MaxChunks == 3
MaxRetries == 3
MaxClock == 20
MaxTokenCalls == 3
MaxInterval == 3
MaxTime == 8
MaxGrants == 3
MaxDelay == 2
MaxExpiries == 1

(***************************************************************************)
(* Characters.                                                             *)
(***************************************************************************)
Whitespace == {" ", "\n", "\t", "\r"}
Terminators == {".", "!", "?"}
SplitAlphabet == {"a", " ", "\n", "."}

Max(S) == CHOOSE x \in S : \A y \in S : y <= x

Texts(alphabet, n) == UNION {[1..k -> alphabet] : k \in 0..n}

\* The last index of the maximal run of characters of set cls that starts at i.
RunEnd(s, i, cls) ==
    Max({j \in i..Len(s) : \A k \in i..j : s[k] \in cls})

\* str.lstrip(), str.rstrip(), str.strip()
RECURSIVE lstrip(_)
lstrip(s) ==
    IF s # <<>> /\ Head(s) \in Whitespace THEN lstrip(Tail(s)) ELSE s

RECURSIVE rstrip(_)
rstrip(s) ==
    IF s # <<>> /\ s[Len(s)] \in Whitespace
    THEN rstrip(SubSeq(s, 1, Len(s) - 1))
    ELSE s

strip(s) == lstrip(rstrip(s))

\* re.sub(cls{minLen,}, repl, s): every maximal run of at least minLen
\* characters of cls becomes repl; shorter runs stay.
RECURSIVE re_sub_runs(_, _, _, _)
re_sub_runs(cls, minLen, repl, s) ==
    IF s = <<>> THEN <<>>
    ELSE IF s[1] \in cls
         THEN LET e == RunEnd(s, 1, cls)
              IN  (IF e >= minLen THEN repl ELSE SubSeq(s, 1, e))
                  \o re_sub_runs(cls, minLen, repl, SubSeq(s, e + 1, Len(s)))
         ELSE <<s[1]>> \o re_sub_runs(cls, minLen, repl, Tail(s))

\* re.sub(r'\r\n', '\n', s)
RECURSIVE re_sub_crlf(_)
re_sub_crlf(s) ==
    IF s = <<>> THEN <<>>
    ELSE IF Len(s) >= 2 /\ s[1] = "\r" /\ s[2] = "\n"
         THEN <<"\n">> \o re_sub_crlf(SubSeq(s, 3, Len(s)))
         ELSE <<s[1]>> \o re_sub_crlf(Tail(s))

(***************************************************************************)
(* The three patterns of TextSplitter.__init__, as the regular-expression  *)
(* engine matches them (leftmost match, greedy quantifiers).               *)
(* pattern_match_end(kind, s, i) is the index of the last character of     *)
(* the match that starts at i, or 0 when no match starts at i.             *)
(*   "sentence_endings"  [.!?]+\s+                                         *)
(*   "paragraph_breaks"  \n\s*\n                                           *)
(*   "word_boundaries"   \s+                                               *)
(***************************************************************************)
pattern_match_end(kind, s, i) ==
    CASE kind = "word_boundaries" ->
            IF s[i] \in Whitespace THEN RunEnd(s, i, Whitespace) ELSE 0
      [] kind = "paragraph_breaks" ->
            IF s[i] = "\n"
            THEN LET e == RunEnd(s, i, Whitespace)
                     nl == {j \in (i + 1)..e : s[j] = "\n"}
                 IN  IF nl = {} THEN 0 ELSE Max(nl)
            ELSE 0
      [] kind = "sentence_endings" ->
            IF s[i] \in Terminators
            THEN LET t == RunEnd(s, i, Terminators)
                 IN  IF t < Len(s) /\ s[t + 1] \in Whitespace
                     THEN RunEnd(s, t + 1, Whitespace)
                     ELSE 0
            ELSE 0

\* pattern.split(s): the pieces between the matches, empty pieces included.
RECURSIVE re_split_from(_, _, _, _)
re_split_from(kind, s, start, i) ==
    IF i > Len(s) THEN <<SubSeq(s, start, Len(s))>>
    ELSE LET j == pattern_match_end(kind, s, i)
         IN  IF j > 0
             THEN <<SubSeq(s, start, i - 1)>> \o re_split_from(kind, s, j + 1, j + 1)
             ELSE re_split_from(kind, s, start, i + 1)

re_split(kind, s) == re_split_from(kind, s, 1, 1)

\* pattern.findall(s): the matches, in order.
RECURSIVE re_findall_from(_, _, _)
re_findall_from(kind, s, i) ==
    IF i > Len(s) THEN <<>>
    ELSE LET j == pattern_match_end(kind, s, i)
         IN  IF j > 0
             THEN <<SubSeq(s, i, j)>> \o re_findall_from(kind, s, j + 1)
             ELSE re_findall_from(kind, s, i + 1)

re_findall(kind, s) == re_findall_from(kind, s, 1)

\* '\n'.join(lines)
RECURSIVE join(_, _)
join(sep, parts) ==
    IF parts = <<>> THEN <<>>
    ELSE IF Len(parts) = 1 THEN parts[1]
         ELSE parts[1] \o sep \o join(sep, Tail(parts))

\* text.split('\n')
RECURSIVE split_lines(_)
split_lines(s) ==
    IF \A k \in 1..Len(s) : s[k] # "\n" THEN <<s>>
    ELSE LET p == CHOOSE k \in 1..Len(s) :
                      s[k] = "\n" /\ \A m \in 1..(k - 1) : s[m] # "\n"
         IN  <<SubSeq(s, 1, p - 1)>> \o split_lines(SubSeq(s, p + 1, Len(s)))

(***************************************************************************)
(* TextSplitter._preprocess_text                                           *)
(***************************************************************************)
_preprocess_text(t) ==
    LET t1 == re_sub_crlf(t)
        t2 == [k \in 1..Len(t1) |-> IF t1[k] = "\r" THEN "\n" ELSE t1[k]]
        t3 == re_sub_runs({" ", "\t"}, 1, <<" ">>, t2)
        t4 == re_sub_runs({"\n"}, 3, <<"\n", "\n">>, t3)
        lines == split_lines(t4)
        t5 == join(<<"\n">>, [k \in 1..Len(lines) |-> strip(lines[k])])
    IN  strip(t5)

(***************************************************************************)
(* The greedy packing of _split_into_chunks, _split_by_sentences and       *)
(* _split_by_words.  Each loop carries the list of sealed chunks and the   *)
(* current chunk.                                                          *)
(***************************************************************************)
\* potential_chunk = current_chunk + (sep if current_chunk else "") + unit
potential_chunk(current_chunk, sep, unit) ==
    current_chunk \o (IF current_chunk # <<>> THEN sep ELSE <<>>) \o unit

\* Mutant of fits: the comparison is off by one.
fits_off_by_one(potential, max) == Len(potential) <= max + 1

\* len(potential_chunk) <= self.max_chunk_size
fits(potential, max) == Len(potential) <= max

\* Mutant of seal: the guard `if current_chunk` is dropped.
seal_unguarded(sealed, current_chunk) == Append(sealed, current_chunk)

\* if current_chunk: chunks.append(current_chunk)
seal(sealed, current_chunk) ==
    IF current_chunk # <<>> THEN Append(sealed, current_chunk) ELSE sealed

\* Mutant of hard_cut: the short slice comes first.
RECURSIVE hard_cut_remainder_first(_, _)
hard_cut_remainder_first(word, max) ==
    IF word = <<>> THEN <<>>
    ELSE IF Len(word) <= max THEN <<word>>
         ELSE LET h == IF Len(word) % max = 0 THEN max ELSE Len(word) % max
              IN  <<SubSeq(word, 1, h)>>
                      \o hard_cut_remainder_first(SubSeq(word, h + 1, Len(word)), max)

\* for i in range(0, len(word), max): chunks.append(word[i:i + max])
RECURSIVE hard_cut(_, _)
hard_cut(word, max) ==
    IF word = <<>> THEN <<>>
    ELSE IF Len(word) <= max THEN <<word>>
         ELSE <<SubSeq(word, 1, max)>> \o hard_cut(SubSeq(word, max + 1, Len(word)), max)

\* sentence_chunks[:-1] and sentence_chunks[-1] if sentence_chunks else ""
all_but_last(cs) == IF cs = <<>> THEN <<>> ELSE SubSeq(cs, 1, Len(cs) - 1)
last_or_empty(cs) == IF cs = <<>> THEN <<>> ELSE cs[Len(cs)]

RECURSIVE words_loop(_, _, _, _, _)
words_loop(words, k, sealed, current_chunk, max) ==
    IF k > Len(words) THEN seal(sealed, current_chunk)
    ELSE LET word == words[k]
             potential == potential_chunk(current_chunk, <<" ">>, word)
         IN  IF strip(word) = <<>>
             THEN words_loop(words, k + 1, sealed, current_chunk, max)
             ELSE IF fits(potential, max)
             THEN words_loop(words, k + 1, sealed, potential, max)
             ELSE IF Len(word) > max
             THEN words_loop(words, k + 1,
                             seal(sealed, current_chunk) \o hard_cut(word, max),
                             <<>>, max)
             ELSE words_loop(words, k + 1, seal(sealed, current_chunk), word, max)

\* TextSplitter._split_by_words
_split_by_words(t, max) ==
    words_loop(re_split("word_boundaries", t), 1, <<>>, <<>>, max)

\* The sentences with their terminators put back (sentence_parts).
sentence_parts(t) ==
    LET sentences == re_split("sentence_endings", t)
        endings == re_findall("sentence_endings", t)
        n == Len(sentences)
        restored == [i \in 1..(n - 1) |->
                        IF strip(sentences[i]) # <<>>
                        THEN <<sentences[i] \o rstrip(endings[i])>>
                        ELSE <<>>]
        lastpart == IF strip(sentences[n]) # <<>> THEN <<sentences[n]>> ELSE <<>>
        flat[i \in 0..(n - 1)] ==
            IF i = 0 THEN <<>> ELSE flat[i - 1] \o restored[i]
    IN  flat[n - 1] \o lastpart

RECURSIVE sentences_loop(_, _, _, _, _)
sentences_loop(parts, k, sealed, current_chunk, max) ==
    IF k > Len(parts) THEN seal(sealed, current_chunk)
    ELSE LET sentence == strip(parts[k])
             potential == potential_chunk(current_chunk, <<" ">>, sentence)
         IN  IF sentence = <<>>
             THEN sentences_loop(parts, k + 1, sealed, current_chunk, max)
             ELSE IF fits(potential, max)
             THEN sentences_loop(parts, k + 1, sealed, potential, max)
             ELSE IF Len(sentence) > max
             THEN LET word_chunks == _split_by_words(sentence, max)
                  IN  sentences_loop(parts, k + 1,
                          seal(sealed, current_chunk) \o all_but_last(word_chunks),
                          last_or_empty(word_chunks), max)
             ELSE sentences_loop(parts, k + 1, seal(sealed, current_chunk),
                                 sentence, max)

\* TextSplitter._split_by_sentences
_split_by_sentences(t, max) ==
    sentences_loop(sentence_parts(t), 1, <<>>, <<>>, max)

RECURSIVE paragraphs_loop(_, _, _, _, _)
paragraphs_loop(paragraphs, k, sealed, current_chunk, max) ==
    IF k > Len(paragraphs) THEN seal(sealed, current_chunk)
    ELSE LET paragraph == strip(paragraphs[k])
             potential == potential_chunk(current_chunk, <<"\n", "\n">>, paragraph)
         IN  IF paragraph = <<>>
             THEN paragraphs_loop(paragraphs, k + 1, sealed, current_chunk, max)
             ELSE IF fits(potential, max)
             THEN paragraphs_loop(paragraphs, k + 1, sealed, potential, max)
             ELSE IF Len(paragraph) > max
             THEN LET sentence_chunks == _split_by_sentences(paragraph, max)
                  IN  paragraphs_loop(paragraphs, k + 1,
                          seal(sealed, current_chunk) \o all_but_last(sentence_chunks),
                          last_or_empty(sentence_chunks), max)
             ELSE paragraphs_loop(paragraphs, k + 1, seal(sealed, current_chunk),
                                  paragraph, max)

\* Mutant of _split_into_chunks: paragraphs are not looked at, the text is
\* packed word by word.
split_into_chunks_by_words(t, max) == _split_by_words(t, max)

\* TextSplitter._split_into_chunks
_split_into_chunks(t, max) ==
    paragraphs_loop(re_split("paragraph_breaks", t), 1, <<>>, <<>>, max)

\* TextChunk.__init__
TextChunk(t, index) ==
    [text |-> strip(t), index |-> index, processed |-> FALSE, audio_file |-> "None"]

\* for i, chunk_text in enumerate(chunks): if chunk_text.strip(): append(TextChunk(chunk_text, i))
RECURSIVE enumerate_chunks(_, _)
enumerate_chunks(sealed, i) ==
    IF i > Len(sealed) THEN <<>>
    ELSE (IF strip(sealed[i]) # <<>> THEN <<TextChunk(sealed[i], i - 1)>> ELSE <<>>)
         \o enumerate_chunks(sealed, i + 1)

\* TextSplitter.split_text, for a text that is not blank
split_text(t, max) ==
    LET processed_text == _preprocess_text(t)
    IN  IF Len(processed_text) <= max
        THEN <<TextChunk(processed_text, 0)>>
        ELSE enumerate_chunks(_split_into_chunks(processed_text, max), 1)

(***************************************************************************)
(* The splitter as a state machine: one call of split_text on an input.    *)
(***************************************************************************)
SplitStart ==
    /\ text_chunks = <<>>
    /\ split_pc = "start"
    /\ clean_text = <<>>
    /\ clean_pc = "start"

SynthIdle ==
    /\ chunks = <<>>
    /\ synth_mode = <<>>
    /\ max_retries = 1
    /\ pc = "idle"
    /\ cur = 0
    /\ attempt = 0
    /\ audio_files = <<>>
    /\ successful_chunks = 0
    /\ valid_audio_files = <<>>
    /\ calls = <<>>
    /\ grants = <<>>
    /\ failed = {}
    /\ retry_delay = 1
    /\ exchange_mode = "ok"
    /\ events = <<>>
    /\ sdk_token = "valid"
    /\ expiries = 0

\* TokenManager.__init__: no token yet
TokenStart ==
    /\ clock = 0
    /\ iam_token = <<>>
    /\ token_expires_at = -1
    /\ exchanges = 0
    /\ token_log = <<>>

\* RateLimiter.__init__, nobody calling
RateIdle ==
    /\ callers = {}
    /\ rl_time = 0
    /\ min_interval = 1
    /\ last_request_time = 0
    /\ rl_pc = <<>>
    /\ current_time = <<>>
    /\ wake_at = <<>>
    /\ slept = <<>>
    /\ grant_log = <<>>

\* the key of a service account, as the environment gives it
GoodCredentials ==
    [key_id |-> TRUE, service_account_id |-> TRUE, private_key |-> "valid",
     key_algorithm |-> "RSA_2048"]

\* TextToAudioApp.run is not called
RunIdle ==
    /\ credentials = GoodCredentials
    /\ run_pc = "idle"
    /\ run_log = <<>>
    /\ run_result = "none"

InitSplit ==
    /\ text \in Texts(SplitAlphabet, MaxTextLen)
    /\ max_chunk_size \in 1..MaxSize
    /\ SplitStart
    /\ SynthIdle
    /\ TokenStart
    /\ RateIdle
    /\ RunIdle

\* Mutant of is_blank: only `not text` is tested.
is_blank_unstripped(t) == t = <<>>

\* if not text or not text.strip():
is_blank(t) == t = <<>> \/ strip(t) = <<>>

\* TextProcessor._validate_chunks returns without raising
_validate_chunks(cs) ==
    /\ cs # <<>>
    /\ \A k \in 1..Len(cs) : Len(cs[k].text) # 0

\* split_text returns its chunks
SplitText ==
    /\ split_pc = "start"
    /\ ~is_blank(text)
    /\ text_chunks' = split_text(text, max_chunk_size)
    /\ split_pc' = "done"
    /\ UNCHANGED <<text, max_chunk_size, clean_text, clean_pc>>
    /\ UNCHANGED <<synth_vars, token_vars, rate_vars, run_vars>>

\* if not text or not text.strip(): raise TextProcessorError
SplitTextEmpty ==
    /\ split_pc = "start"
    /\ is_blank(text)
    /\ split_pc' = "error"
    /\ UNCHANGED <<text, max_chunk_size, text_chunks, clean_text, clean_pc>>
    /\ UNCHANGED <<synth_vars, token_vars, rate_vars, run_vars>>

\* TextProcessor.process_text: split_text, then _validate_chunks; whatever
\* is raised on the way leaves as TextProcessorError
ProcessText ==
    /\ split_pc = "start"
    /\ ~is_blank(text)
    /\ LET cs == split_text(text, max_chunk_size)
       IN  IF _validate_chunks(cs)
           THEN /\ text_chunks' = cs
                /\ split_pc' = "processed"
           ELSE /\ split_pc' = "error"
                /\ UNCHANGED text_chunks
    /\ UNCHANGED <<text, max_chunk_size, clean_text, clean_pc>>
    /\ UNCHANGED <<synth_vars, token_vars, rate_vars, run_vars>>

NextSplit == SplitText \/ SplitTextEmpty \/ ProcessText

SpecSplit == InitSplit /\ [][NextSplit]_vars

(***************************************************************************)
(* clean_text_for_synthesis.  "#" stands for any character outside the     *)
(* allowlist of the last substitution.                                     *)
(***************************************************************************)
NotAllowed == {"#"}

clean_text_for_synthesis(t) ==
    LET t1 == re_sub_runs(Whitespace, 1, <<" ">>, t)
        t2 == re_sub_runs({"."}, 2, <<".", ".", ".">>, t1)
        t3 == re_sub_runs({"!"}, 2, <<"!">>, t2)
        t4 == re_sub_runs({"?"}, 2, <<"?">>, t3)
        t5 == re_sub_runs(NotAllowed, 1, <<>>, t4)
    IN  strip(t5)

\* Mutant of empty_after_cleanup: the text is tested before it is cleaned.
empty_before_cleanup(t) == strip(t) = <<>>

\* clean_text = clean_text_for_synthesis(chunk.text); if not clean_text.strip():
empty_after_cleanup(t) == strip(clean_text_for_synthesis(t)) = <<>>

\* The cleanup as a state machine: one call of clean_text_for_synthesis on
\* a text of letters, blanks, sentence punctuation and characters outside
\* the allowlist.
CleanAlphabet == {"a", " ", ".", "!", "?"} \cup NotAllowed

InitClean ==
    /\ text \in Texts(CleanAlphabet, MaxTextLen)
    /\ max_chunk_size = 1
    /\ SplitStart
    /\ SynthIdle
    /\ TokenStart
    /\ RateIdle
    /\ RunIdle

\* clean_text = clean_text_for_synthesis(chunk.text)
CleanText ==
    /\ clean_pc = "start"
    /\ clean_text' = clean_text_for_synthesis(text)
    /\ clean_pc' = "cleaned"
    /\ UNCHANGED <<text, max_chunk_size, text_chunks, split_pc>>
    /\ UNCHANGED <<synth_vars, token_vars, rate_vars, run_vars>>

NextClean == CleanText

SpecClean == InitClean /\ [][NextClean]_vars

(***************************************************************************)
(* SpeechSynthesizer.synthesize_chunks and synthesize_chunk.               *)
(*                                                                         *)
(* pc: "idle"        before the call of synthesize_chunks                  *)
(*     "loop"        at the head of `for chunk in chunks`                  *)
(*     "wait"        in synthesize_chunk, before rate_limiter.wait_if_needed*)
(*     "synth"       before model.synthesize                               *)
(*     "sleep"       in the except block, before time.sleep                *)
(*     "refresh"     before _refresh_credentials                           *)
(*     "returned"    synthesize_chunks returned valid_audio_files          *)
(*     "raised"      synthesize_chunks raised SynthesizerError             *)
(*     "interrupted" synthesize_chunks re-raised KeyboardInterrupt         *)
(***************************************************************************)
ChunkTexts == {<<"a">>, <<"#">>}
SynthModes == {"ok", "fail", "flaky"}
ExchangeModes == {"ok", "flaky"}

\* os.path.join(self.temp_dir, f"chunk_{chunk.index:04d}.wav")
output_path(chunk) == <<"chunk", chunk.index, "wav">>

\* the chunks process_text hands over: indexed from 0, not processed
ChunkLists(n) ==
    {[k \in 1..n |-> TextChunk(ts[k], k - 1)] : ts \in [1..n -> ChunkTexts]}

\* Mutant of record_failure: no placeholder is appended for a failed chunk.
record_failure_skipped(files) == files

\* except Exception: audio_files.append(None)
record_failure(files) == Append(files, "None")

\* Mutant of after_failure: a chunk's failure ends the loop.
abort_after_failure(position, n) == n + 1

\* the for loop goes on with the next chunk after a chunk's failure
after_failure(position, n) == position + 1

\* Mutant of retry_allowed: the last attempt is taken for one more to come.
retry_allowed_once_more(att, retries) == att < retries

\* if attempt < self.max_retries - 1: sleep, refresh; else: raise
retry_allowed(att, retries) == att < retries - 1

\* Mutant of filter_valid: the list is returned as it is.
filter_valid_unfiltered(files) == files

\* valid_audio_files = [f for f in audio_files if f is not None]
filter_valid(files) == SelectSeq(files, LAMBDA f : f # "None")

\* Mutant of nothing_synthesized: the unfiltered list is tested.
nothing_recorded(files) == files = <<>>

\* if not valid_audio_files: raise SynthesizerError
nothing_synthesized(files) == filter_valid(files) = <<>>

\* A synthesizer whose MAX_RETRIES is one of retries, about to be given the
\* chunks of process_text.
SynthesizerWith(retries) ==
    /\ \E n \in 0..MaxChunks :
          /\ chunks \in ChunkLists(n)
          /\ synth_mode \in [1..n -> SynthModes]
          \* the model is never asked about a chunk with nothing to say
          /\ \A k \in 1..n : empty_after_cleanup(chunks[k].text) => synth_mode[k] = "ok"
          /\ calls = [k \in 1..n |-> 0]
          /\ grants = [k \in 1..n |-> 0]
    /\ max_retries \in retries
    /\ retry_delay \in 1..MaxDelay
    /\ exchange_mode \in ExchangeModes
    /\ events = <<>>
    /\ sdk_token = "valid"
    /\ expiries = 0
    /\ pc = "idle"
    /\ cur = 0
    /\ attempt = 0
    /\ audio_files = <<>>
    /\ successful_chunks = 0
    /\ valid_audio_files = <<>>
    /\ failed = {}
    /\ text = <<>>
    /\ max_chunk_size = 1
    /\ SplitStart
    /\ TokenStart
    /\ RateIdle
    /\ RunIdle

\* A synthesizer configured with at least one attempt per chunk
\* (MAX_RETRIES >= 1; the default is 3).
InitSynth == SynthesizerWith(1..MaxRetries)

\* if not chunks: raise SynthesizerError
RunEmpty ==
    /\ pc = "idle"
    /\ chunks = <<>>
    /\ pc' = "raised"
    /\ UNCHANGED <<chunks, synth_mode, max_retries, cur, attempt, audio_files,
                   successful_chunks, valid_audio_files, calls, grants, failed>>
    /\ UNCHANGED <<retry_delay, exchange_mode, events, sdk_token, expiries>>
    /\ UNCHANGED <<split_vars, token_vars, rate_vars, run_vars>>

\* Mutant of first_position: the loop starts at the last chunk.
first_position_last(n) == n

\* for chunk in chunks: the first chunk of the list comes first
first_position(n) == 1

\* audio_files = []; successful_chunks = 0; for chunk in chunks:
RunStart ==
    /\ pc = "idle"
    /\ chunks # <<>>
    /\ pc' = "loop"
    /\ cur' = first_position(Len(chunks))
    /\ audio_files' = <<>>
    /\ successful_chunks' = 0
    /\ UNCHANGED <<chunks, synth_mode, max_retries, attempt, valid_audio_files,
                   calls, grants, failed>>
    /\ UNCHANGED <<retry_delay, exchange_mode, events, sdk_token, expiries>>
    /\ UNCHANGED <<split_vars, token_vars, rate_vars, run_vars>>

\* synthesize_chunk(chunk) returned path to synthesize_chunks
chunk_returns(path) ==
    /\ audio_files' = Append(audio_files, path)
    /\ successful_chunks' = successful_chunks + 1
    /\ cur' = cur + 1
    /\ pc' = "loop"
    /\ UNCHANGED failed

\* synthesize_chunk(chunk) raised; synthesize_chunks goes on
chunk_raises ==
    /\ audio_files' = record_failure(audio_files)
    /\ failed' = failed \cup {cur}
    /\ cur' = after_failure(cur, Len(chunks))
    /\ pc' = "loop"
    /\ UNCHANGED successful_chunks

\* Mutant of attempt_entry: a retry goes to model.synthesize directly.
attempt_entry_unpaced(att) == IF att = 0 THEN "wait" ELSE "synth"

\* every iteration of `for attempt in range(self.max_retries)` starts with
\* self.rate_limiter.wait_if_needed()
attempt_entry(att) == "wait"

\* Mutant of backoff: the exponent is one too high.
backoff_doubled(delay, att) == delay * 2^(att + 1)

\* sleep_time = self.retry_delay * (2 ** attempt)
backoff(delay, att) == delay * 2^att

\* Mutant of refresh_failure_swallowed: a failed refresh is re-raised.
refresh_failure_escalated(refreshed) == refreshed

\* try: self._refresh_credentials() except Exception: logger.warning(...)
refresh_failure_swallowed(refreshed) == TRUE

\* configure_credentials(iam_token = token_manager.refresh_token()) when the
\* exchange succeeded; the SDK keeps its token when refresh_token raised
token_after_refresh(held, refreshed) == IF refreshed THEN "fresh" ELSE held

\* a token issued during an earlier chunk is an ordinary token by now
aged(held) == IF held = "fresh" THEN "valid" ELSE held

\* one entry of events
event(kind, arg) == [kind |-> kind, arg |-> arg]

log_event(kind, arg) == events' = Append(events, event(kind, arg))

\* Mutant of already_processed: the flag is not looked at.
already_processed_ignored(chunk) == FALSE

\* if chunk.processed: return chunk.audio_file
already_processed(chunk) == chunk.processed

\* The entry of synthesize_chunk, up to the for loop.
EnterChunk ==
    /\ pc = "loop"
    /\ cur <= Len(chunks)
    /\ IF already_processed(chunks[cur])
       THEN chunk_returns(chunks[cur].audio_file) /\ UNCHANGED <<attempt, sdk_token>>
       ELSE IF empty_after_cleanup(chunks[cur].text)
       THEN chunk_raises /\ UNCHANGED <<attempt, sdk_token>>
       ELSE IF max_retries <= 0
       THEN chunk_returns("None") /\ UNCHANGED <<attempt, sdk_token>>
       ELSE /\ attempt' = 0
            /\ pc' = attempt_entry(0)
            /\ sdk_token' = aged(sdk_token)
            /\ UNCHANGED <<cur, audio_files, successful_chunks, failed>>
    /\ events' = <<>>
    /\ UNCHANGED <<chunks, synth_mode, max_retries, valid_audio_files, calls, grants>>
    /\ UNCHANGED <<retry_delay, exchange_mode, expiries>>
    /\ UNCHANGED <<split_vars, token_vars, rate_vars, run_vars>>

\* self.rate_limiter.wait_if_needed()
WaitIfNeeded ==
    /\ pc = "wait"
    /\ grants' = [grants EXCEPT ![cur] = @ + 1]
    /\ log_event("grant", attempt)
    /\ pc' = "synth"
    /\ UNCHANGED <<chunks, synth_mode, max_retries, cur, attempt, audio_files,
                   successful_chunks, valid_audio_files, calls, failed>>
    /\ UNCHANGED <<retry_delay, exchange_mode, sdk_token, expiries>>
    /\ UNCHANGED <<split_vars, token_vars, rate_vars, run_vars>>

\* model.synthesize and result.export succeed, the file exists
SynthesizeOk ==
    /\ pc = "synth"
    /\ synth_mode[cur] # "fail"
    /\ sdk_token # "expired"
    /\ calls' = [calls EXCEPT ![cur] = @ + 1]
    /\ log_event("synthesize", 1)
    /\ chunks' = [chunks EXCEPT ![cur].processed = TRUE,
                                ![cur].audio_file = output_path(chunks[cur])]
    /\ chunk_returns(output_path(chunks[cur]))
    /\ UNCHANGED <<synth_mode, max_retries, attempt, valid_audio_files, grants>>
    /\ UNCHANGED <<retry_delay, exchange_mode, sdk_token, expiries>>
    /\ UNCHANGED <<split_vars, token_vars, rate_vars, run_vars>>

\* model.synthesize (or the export, or the file check) raises
SynthesizeFails ==
    /\ pc = "synth"
    /\ synth_mode[cur] # "ok" \/ sdk_token = "expired"
    /\ calls' = [calls EXCEPT ![cur] = @ + 1]
    /\ log_event("synthesize", 0)
    /\ IF retry_allowed(attempt, max_retries)
       THEN /\ pc' = "sleep"
            /\ UNCHANGED <<cur, audio_files, successful_chunks, failed>>
       ELSE chunk_raises
    /\ UNCHANGED <<chunks, synth_mode, max_retries, attempt, valid_audio_files, grants>>
    /\ UNCHANGED <<retry_delay, exchange_mode, sdk_token, expiries>>
    /\ UNCHANGED <<split_vars, token_vars, rate_vars, run_vars>>

\* time.sleep(self.retry_delay * (2 ** attempt))
BackoffSleep ==
    /\ pc = "sleep"
    /\ log_event("sleep", backoff(retry_delay, attempt))
    /\ pc' = "refresh"
    /\ UNCHANGED <<chunks, synth_mode, max_retries, cur, attempt, audio_files,
                   successful_chunks, valid_audio_files, calls, grants, failed>>
    /\ UNCHANGED <<retry_delay, exchange_mode, sdk_token, expiries>>
    /\ UNCHANGED <<split_vars, token_vars, rate_vars, run_vars>>

\* self._refresh_credentials(), its failure swallowed; then the next
\* iteration of `for attempt in range(self.max_retries)`
RefreshCredentials ==
    /\ pc = "refresh"
    /\ \E refreshed \in BOOLEAN :
          /\ exchange_mode = "ok" => refreshed
          /\ log_event("refresh", IF refreshed THEN 1 ELSE 0)
          /\ sdk_token' = token_after_refresh(sdk_token, refreshed)
          /\ IF ~refresh_failure_swallowed(refreshed)
             THEN chunk_raises /\ UNCHANGED attempt
             ELSE IF attempt + 1 < max_retries
             THEN /\ attempt' = attempt + 1
                  /\ pc' = attempt_entry(attempt + 1)
                  /\ UNCHANGED <<cur, audio_files, successful_chunks, failed>>
             ELSE chunk_returns("None") /\ UNCHANGED attempt
    /\ UNCHANGED <<chunks, synth_mode, max_retries, valid_audio_files, calls, grants>>
    /\ UNCHANGED <<retry_delay, exchange_mode, expiries>>
    /\ UNCHANGED <<split_vars, token_vars, rate_vars, run_vars>>

\* The IAM token the SDK was configured with reaches its expiresAt.  A token
\* lives for hours (auth.py:217-223), a chunk's backoff sleeps take seconds:
\* the token issued by a refresh does not expire during the chunk it was
\* issued in.
TokenExpires ==
    /\ pc \in {"loop", "wait", "synth", "sleep", "refresh"}
    /\ sdk_token = "valid"
    /\ expiries < MaxExpiries
    /\ sdk_token' = "expired"
    /\ expiries' = expiries + 1
    /\ UNCHANGED <<chunks, synth_mode, max_retries, pc, cur, attempt, audio_files,
                   successful_chunks, valid_audio_files, calls, grants, failed,
                   retry_delay, exchange_mode, events>>
    /\ UNCHANGED <<split_vars, token_vars, rate_vars, run_vars>>

\* the loop is over: return valid_audio_files
RunReturns ==
    /\ pc = "loop"
    /\ cur > Len(chunks)
    /\ ~nothing_synthesized(audio_files)
    /\ valid_audio_files' = filter_valid(audio_files)
    /\ pc' = "returned"
    /\ UNCHANGED <<chunks, synth_mode, max_retries, cur, attempt, audio_files,
                   successful_chunks, calls, grants, failed>>
    /\ UNCHANGED <<retry_delay, exchange_mode, events, sdk_token, expiries>>
    /\ UNCHANGED <<split_vars, token_vars, rate_vars, run_vars>>

\* the loop is over: raise SynthesizerError("Не удалось синтезировать ни одного фрагмента")
RunRaises ==
    /\ pc = "loop"
    /\ cur > Len(chunks)
    /\ nothing_synthesized(audio_files)
    /\ pc' = "raised"
    /\ UNCHANGED <<chunks, synth_mode, max_retries, cur, attempt, audio_files,
                   successful_chunks, valid_audio_files, calls, grants, failed>>
    /\ UNCHANGED <<retry_delay, exchange_mode, events, sdk_token, expiries>>
    /\ UNCHANGED <<split_vars, token_vars, rate_vars, run_vars>>

\* except KeyboardInterrupt: progress.close(); raise
Interrupt ==
    /\ pc \in {"loop", "wait", "synth", "sleep", "refresh"}
    /\ pc' = "interrupted"
    /\ UNCHANGED <<chunks, synth_mode, max_retries, cur, attempt, audio_files,
                   successful_chunks, valid_audio_files, calls, grants, failed>>
    /\ UNCHANGED <<retry_delay, exchange_mode, events, sdk_token, expiries>>
    /\ UNCHANGED <<split_vars, token_vars, rate_vars, run_vars>>

Next ==
    \/ RunEmpty
    \/ RunStart
    \/ EnterChunk
    \/ WaitIfNeeded
    \/ SynthesizeOk
    \/ SynthesizeFails
    \/ BackoffSleep
    \/ RefreshCredentials
    \/ RunReturns
    \/ RunRaises
    \/ Interrupt

Spec == InitSynth /\ [][Next]_vars

\* The same run with a token that may expire under the SDK.
NextExpiry == Next \/ TokenExpires

SpecExpiry == InitSynth /\ [][NextExpiry]_vars

\* One run that nobody interrupts.  The calling thread goes on with its next
\* statement: a sleep ends, and model.synthesize and the token exchange
\* return or raise.
NextUninterrupted ==
    \/ RunEmpty
    \/ RunStart
    \/ EnterChunk
    \/ WaitIfNeeded
    \/ SynthesizeOk
    \/ SynthesizeFails
    \/ BackoffSleep
    \/ RefreshCredentials
    \/ RunReturns
    \/ RunRaises

\* The length of a sleep has no part in whether the run ends: RETRY_DELAY
\* is at its default.
InitLive == InitSynth /\ retry_delay = 1

SpecLive == InitLive /\ [][NextUninterrupted]_vars /\ WF_vars(NextUninterrupted)

\* self.max_retries = int(os.getenv('MAX_RETRIES', '3')): any number is
\* taken, 0 included.  RETRY_DELAY is at its default.
InitAnyRetries == SynthesizerWith(0..MaxRetries) /\ retry_delay = 1

SpecAnyRetries == InitAnyRetries /\ [][Next]_vars

\* synthesize_chunks is called again with the same TextChunk objects, after
\* a call that returned, raised or was interrupted: audio_files = [],
\* successful_chunks = 0, and the loop starts over.  calls, grants and
\* failed count per call of synthesize_chunks.
RunAgain ==
    /\ pc \in {"returned", "raised", "interrupted"}
    /\ chunks # <<>>
    /\ pc' = "loop"
    /\ cur' = first_position(Len(chunks))
    /\ attempt' = 0
    /\ audio_files' = <<>>
    /\ successful_chunks' = 0
    /\ valid_audio_files' = <<>>
    /\ calls' = [k \in 1..Len(chunks) |-> 0]
    /\ grants' = [k \in 1..Len(chunks) |-> 0]
    /\ failed' = {}
    /\ events' = <<>>
    /\ UNCHANGED <<chunks, synth_mode, max_retries>>
    /\ UNCHANGED <<retry_delay, exchange_mode, sdk_token, expiries>>
    /\ UNCHANGED <<split_vars, token_vars, rate_vars, run_vars>>

\* A synthesizer with the default RETRY_DELAY whose token exchange works.
InitRerun == InitSynth /\ retry_delay = 1 /\ exchange_mode = "ok"

NextRerun == Next \/ RunAgain

\* Runs of synthesize_chunks, one after the other, over the same chunks.
SpecRerun == InitRerun /\ [][NextRerun]_vars

(***************************************************************************)
(* TextToAudioApp.run (main.py): the steps of one conversion.              *)
(*                                                                         *)
(* run_pc: "validate" -> "auth" -> "read" -> "process" -> "synthesize" ->  *)
(*         "synthesizing" (inside synthesize_chunks) -> "merge" -> "done"  *)
(***************************************************************************)
KeyPresence == {"absent", "malformed", "valid"}
KeyAlgorithms == {"unset", "RSA_2048", "RSA_4096"}

Credentials ==
    [key_id : BOOLEAN, service_account_id : BOOLEAN, private_key : KeyPresence,
     key_algorithm : KeyAlgorithms]

\* if not all([key_id, service_account_id, private_key]): raise YandexAuthError
_load_key(creds) ==
    /\ creds.key_id
    /\ creds.service_account_id
    /\ creds.private_key # "absent"

\* os.getenv('YANDEX_KEY_ALGORITHM', 'RSA_2048')
key_algorithm_of(creds) ==
    IF creds.key_algorithm = "unset" THEN "RSA_2048" ELSE creds.key_algorithm

\* Mutant of _validate_key: the algorithm is not looked at.
validate_key_any_algorithm(creds) == TRUE

\* if self.key_data['key_algorithm'] != 'RSA_2048': raise YandexAuthError
_validate_key(creds) == key_algorithm_of(creds) = "RSA_2048"

\* jwt.encode(payload, private_key, algorithm='PS256') returns an assertion
_create_jwt_token(creds) == creds.private_key = "valid"

\* auth.test_authentication: TokenManager(), get_iam_token(), a token of
\* more than 50 characters; every exception is turned into False
test_authentication(creds, exchanged) ==
    /\ _load_key(creds)
    /\ _validate_key(creds)
    /\ _create_jwt_token(creds)
    /\ exchanged

\* run returns
finish(result) ==
    /\ run_pc' = "done"
    /\ run_result' = result

step(name) == run_log' = Append(run_log, name)

InitRun ==
    /\ credentials \in Credentials
    /\ run_pc = "validate"
    /\ run_log = <<>>
    /\ run_result = "none"
    /\ max_retries \in 1..MaxRetries
    /\ retry_delay = 1
    /\ exchange_mode \in ExchangeModes
    /\ chunks = <<>>
    /\ synth_mode = <<>>
    /\ pc = "idle"
    /\ cur = 0
    /\ attempt = 0
    /\ audio_files = <<>>
    /\ successful_chunks = 0
    /\ valid_audio_files = <<>>
    /\ calls = <<>>
    /\ grants = <<>>
    /\ failed = {}
    /\ events = <<>>
    /\ sdk_token = "valid"
    /\ expiries = 0
    /\ text = <<>>
    /\ max_chunk_size = 1
    /\ SplitStart
    /\ TokenStart
    /\ RateIdle

\* 1. self._validate_inputs(input_file, output_file, audio_format)
ValidateInputs ==
    /\ run_pc = "validate"
    /\ step("_validate_inputs")
    /\ \E valid \in BOOLEAN :
          IF valid THEN run_pc' = "auth" /\ UNCHANGED run_result
          ELSE finish("False")
    /\ UNCHANGED credentials
    /\ UNCHANGED <<split_vars, synth_vars, token_vars, rate_vars>>

\* 2. self._test_authentication(): raises YandexAuthError unless
\* test_authentication() is True
TestAuthentication ==
    /\ run_pc = "auth"
    /\ step("_test_authentication")
    /\ \E exchanged \in BOOLEAN :
          IF test_authentication(credentials, exchanged)
          THEN run_pc' = "read" /\ UNCHANGED run_result
          ELSE finish("False")
    /\ UNCHANGED credentials
    /\ UNCHANGED <<split_vars, synth_vars, token_vars, rate_vars>>

\* 3. text = self._read_input_file(input_file)
ReadInputFile ==
    /\ run_pc = "read"
    /\ step("_read_input_file")
    /\ \E readable \in BOOLEAN :
          IF readable THEN run_pc' = "process" /\ UNCHANGED run_result
          ELSE finish("False")
    /\ UNCHANGED credentials
    /\ UNCHANGED <<split_vars, synth_vars, token_vars, rate_vars>>

\* 4. chunks = self._process_text(text): process_text returns at least one
\* chunk, or raises
ProcessTextStep ==
    /\ run_pc = "process"
    /\ step("_process_text")
    /\ \/ /\ \E n \in 1..MaxChunks :
                /\ chunks' \in ChunkLists(n)
                /\ synth_mode' \in [1..n -> SynthModes]
                /\ \A k \in 1..n : empty_after_cleanup(chunks'[k].text) => synth_mode'[k] = "ok"
                /\ calls' = [k \in 1..n |-> 0]
                /\ grants' = [k \in 1..n |-> 0]
          /\ run_pc' = "synthesize"
          /\ UNCHANGED run_result
       \/ /\ finish("False")
          /\ UNCHANGED <<chunks, synth_mode, calls, grants>>
    /\ UNCHANGED credentials
    /\ UNCHANGED <<max_retries, pc, cur, attempt, audio_files, successful_chunks,
                   valid_audio_files, failed, retry_delay, exchange_mode, events, sdk_token, expiries>>
    /\ UNCHANGED <<split_vars, token_vars, rate_vars>>

\* 5. self._synthesize_speech(chunks): get_synthesizer() builds the
\* SpeechSynthesizer (its _initialize_sdk may raise), then synthesize_chunks
StartSynthesis ==
    /\ run_pc = "synthesize"
    /\ step("_synthesize_speech")
    /\ \E initialized \in BOOLEAN :
          IF initialized THEN run_pc' = "synthesizing" /\ UNCHANGED run_result
          ELSE finish("False")
    /\ UNCHANGED credentials
    /\ UNCHANGED <<split_vars, synth_vars, token_vars, rate_vars>>

\* synthesize_chunks is over: its list goes to the merge, its exception
\* (SynthesizerError, KeyboardInterrupt) makes run return False
SynthesisOver ==
    /\ run_pc = "synthesizing"
    /\ pc \in {"returned", "raised", "interrupted"}
    /\ IF pc = "returned" THEN run_pc' = "merge" /\ UNCHANGED run_result
       ELSE finish("False")
    /\ UNCHANGED <<credentials, run_log>>
    /\ UNCHANGED <<split_vars, synth_vars, token_vars, rate_vars>>

\* 6. to 9. merge, information, cleanup, summary
MergeAudio ==
    /\ run_pc = "merge"
    /\ step("_merge_audio")
    /\ \E merged \in BOOLEAN : finish(IF merged THEN "True" ELSE "False")
    /\ UNCHANGED credentials
    /\ UNCHANGED <<split_vars, synth_vars, token_vars, rate_vars>>

\* except KeyboardInterrupt: return False (outside synthesize_chunks)
RunInterrupted ==
    /\ run_pc \in {"validate", "auth", "read", "process", "synthesize", "merge"}
    /\ finish("False")
    /\ UNCHANGED <<credentials, run_log>>
    /\ UNCHANGED <<split_vars, synth_vars, token_vars, rate_vars>>

\* a step of synthesize_chunks, called by run with the chunks of process_text
InSynthesis == run_pc = "synthesizing"

NextRun ==
    \/ ValidateInputs
    \/ TestAuthentication
    \/ ReadInputFile
    \/ ProcessTextStep
    \/ StartSynthesis
    \/ InSynthesis /\ RunStart
    \/ InSynthesis /\ EnterChunk
    \/ InSynthesis /\ WaitIfNeeded
    \/ InSynthesis /\ SynthesizeOk
    \/ InSynthesis /\ SynthesizeFails
    \/ InSynthesis /\ BackoffSleep
    \/ InSynthesis /\ RefreshCredentials
    \/ InSynthesis /\ RunReturns
    \/ InSynthesis /\ RunRaises
    \/ InSynthesis /\ Interrupt
    \/ SynthesisOver
    \/ MergeAudio
    \/ RunInterrupted

SpecRun == InitRun /\ [][NextRun]_vars

(***************************************************************************)
(* TokenManager (auth.py).  The clock counts minutes; the private key      *)
(* loaded by _load_key signs, so _create_jwt_token returns an assertion    *)
(* (iat = now, exp = now + 3600 s) and every call that does not return     *)
(* the cached token sends one request to the identity endpoint.            *)
(***************************************************************************)
\* buffer_time = timedelta(minutes=10)
BufferMinutes == 10
\* timedelta(hours=12)
DefaultLifetimeHours == 12

\* What _exchange_jwt_for_iam and the parsing of its answer can meet:
\*   "network_error"  requests.post raises (connection, timeout)
\*   "http_error"     raise_for_status raises (non-2xx)
\*   "bad_json"       response.json() raises
\*   "no_token"       the JSON answer has no 'iamToken'
\*   "ok"             an answer with 'iamToken'; its 'expiresAt' is a time
\*                    (life minutes from now), absent or unparseable
ExchangeFailures == {"network_error", "http_error", "bad_json", "no_token"}
Lifetimes == {5, 30}
Responses ==
    [kind : ExchangeFailures, expiresAt : {"absent"}, life : {0}]
    \cup [kind : {"ok"}, expiresAt : {"absent", "unparseable"}, life : {0}]
    \cup [kind : {"ok"}, expiresAt : {"time"}, life : Lifetimes]

\* self.iam_token = None, self.token_expires_at = None
NoToken == <<>>
NoExpiry == -1

\* Mutant of _is_token_expired: the 10 minutes buffer is forgotten.
is_token_expired_no_buffer(now, expires_at) ==
    IF expires_at = NoExpiry THEN TRUE ELSE now >= expires_at

\* TokenManager._is_token_expired
_is_token_expired(now, expires_at) ==
    IF expires_at = NoExpiry THEN TRUE ELSE now + BufferMinutes >= expires_at

\* Mutant of on_exchange_failure: the cached token is dropped.
on_exchange_failure_clears(cached) == NoToken

\* except Exception as e: raise YandexAuthError -- self.iam_token is as it was
on_exchange_failure(cached) == cached

\* the expiry get_iam_token stores for an answer (lines 202-223)
expiry_of(now, response) ==
    IF response.expiresAt \in {"absent", "unparseable"}
    THEN now + DefaultLifetimeHours * 60
    ELSE now + response.life

\* the record of one call in token_log
call_record(force, response, result, sent) ==
    [force |-> force, at |-> clock, response |-> response,
     token_before |-> iam_token, expires_before |-> token_expires_at,
     token_after |-> iam_token', expires_after |-> token_expires_at',
     result |-> result, exchanged |-> sent]

\* TokenManager.get_iam_token(force_refresh)
get_iam_token(force_refresh) ==
    /\ Len(token_log) < MaxTokenCalls
    /\ IF ~force_refresh /\ iam_token # NoToken
          /\ ~_is_token_expired(clock, token_expires_at)
       THEN /\ UNCHANGED <<iam_token, token_expires_at, exchanges>>
            /\ token_log' = Append(token_log,
                               call_record(force_refresh, "none", iam_token, 0))
       ELSE \E response \in Responses :
              /\ exchanges' = exchanges + 1
              /\ IF response.kind \in ExchangeFailures
                 THEN /\ iam_token' = on_exchange_failure(iam_token)
                      /\ UNCHANGED token_expires_at
                      /\ token_log' = Append(token_log,
                            call_record(force_refresh, response.kind, <<"raised">>, 1))
                 ELSE /\ iam_token' = <<"iam", exchanges + 1>>
                      /\ token_expires_at' = expiry_of(clock, response)
                      /\ token_log' = Append(token_log,
                            call_record(force_refresh, response.kind,
                                        <<"iam", exchanges + 1>>, 1))
    /\ UNCHANGED clock
    /\ UNCHANGED <<split_vars, synth_vars, rate_vars, run_vars>>

\* a caller asks for the token
GetIamToken ==
    /\ TRUE
    /\ get_iam_token(FALSE)

\* TokenManager.refresh_token
RefreshToken ==
    /\ TRUE
    /\ get_iam_token(TRUE)

\* five minutes pass
ClockTick ==
    /\ clock + 5 <= MaxClock
    /\ clock' = clock + 5
    /\ UNCHANGED <<iam_token, token_expires_at, exchanges, token_log>>
    /\ UNCHANGED <<split_vars, synth_vars, rate_vars, run_vars>>

InitToken ==
    /\ TokenStart
    /\ text = <<>>
    /\ max_chunk_size = 1
    /\ SplitStart
    /\ SynthIdle
    /\ RateIdle
    /\ RunIdle

NextToken == GetIamToken \/ RefreshToken \/ ClockTick

SpecToken == InitToken /\ [][NextToken]_vars

(***************************************************************************)
(* RateLimiter (synthesizer.py).  time.time() is a clock in ticks that     *)
(* never goes back; min_interval = 1.0 / requests_per_second is a whole    *)
(* number of ticks.  A call of wait_if_needed by caller p goes             *)
(*   "idle"  -> current_time = time.time()                       "check"   *)
(*   "check" -> time_since_last = current_time - last_request_time;        *)
(*              time.sleep(sleep_time) when it is < min_interval "sleeping"*)
(*              otherwise                                        "grant"   *)
(*   "sleeping" -> the sleep returns, not before sleep_time has passed     *)
(*                                                               "grant"   *)
(*   "grant" -> self.last_request_time = time.time()             "idle"    *)
(* and the clock may tick between any two steps.                           *)
(***************************************************************************)
\* Mutant of needs_wait: the comparison is turned round.
needs_wait_reversed(time_since_last, interval) == time_since_last > interval

\* if time_since_last < self.min_interval
needs_wait(time_since_last, interval) == time_since_last < interval

\* sleep_time = self.min_interval - time_since_last
sleep_time(time_since_last, interval) == interval - time_since_last

\* current_time = time.time()
ReadClock(p) ==
    /\ rl_pc[p] = "idle"
    /\ Len(grant_log) < MaxGrants
    /\ current_time' = [current_time EXCEPT ![p] = rl_time]
    /\ slept' = [slept EXCEPT ![p] = FALSE]
    /\ rl_pc' = [rl_pc EXCEPT ![p] = "check"]
    /\ UNCHANGED <<callers, rl_time, min_interval, last_request_time, wake_at, grant_log>>
    /\ UNCHANGED <<split_vars, synth_vars, token_vars, run_vars>>

\* time_since_last = current_time - self.last_request_time; the test; the
\* call of time.sleep
CheckInterval(p) ==
    /\ rl_pc[p] = "check"
    /\ LET time_since_last == current_time[p] - last_request_time
       IN  IF needs_wait(time_since_last, min_interval)
           THEN /\ wake_at' = [wake_at EXCEPT
                                  ![p] = rl_time + sleep_time(time_since_last, min_interval)]
                /\ slept' = [slept EXCEPT ![p] = TRUE]
                /\ rl_pc' = [rl_pc EXCEPT ![p] = "sleeping"]
           ELSE /\ rl_pc' = [rl_pc EXCEPT ![p] = "grant"]
                /\ UNCHANGED <<wake_at, slept>>
    /\ UNCHANGED <<callers, rl_time, min_interval, last_request_time, current_time, grant_log>>
    /\ UNCHANGED <<split_vars, synth_vars, token_vars, run_vars>>

\* time.sleep(sleep_time) returns
Wake(p) ==
    /\ rl_pc[p] = "sleeping"
    /\ rl_time >= wake_at[p]
    /\ rl_pc' = [rl_pc EXCEPT ![p] = "grant"]
    /\ UNCHANGED <<callers, rl_time, min_interval, last_request_time, current_time,
                   wake_at, slept, grant_log>>
    /\ UNCHANGED <<split_vars, synth_vars, token_vars, run_vars>>

\* self.last_request_time = time.time()
Grant(p) ==
    /\ rl_pc[p] = "grant"
    /\ last_request_time' = rl_time
    /\ grant_log' = Append(grant_log, [at |-> rl_time, by |-> p, slept |-> slept[p]])
    /\ rl_pc' = [rl_pc EXCEPT ![p] = "idle"]
    /\ UNCHANGED <<callers, rl_time, min_interval, current_time, wake_at, slept>>
    /\ UNCHANGED <<split_vars, synth_vars, token_vars, run_vars>>

\* the clock advances (the caller works, or sleeps)
TimePasses ==
    /\ callers # {}
    /\ rl_time < MaxTime
    /\ rl_time' = rl_time + 1
    /\ UNCHANGED <<callers, min_interval, last_request_time, rl_pc, current_time,
                   wake_at, slept, grant_log>>
    /\ UNCHANGED <<split_vars, synth_vars, token_vars, run_vars>>

\* A limiter just constructed (last_request_time = 0.0), used by the callers cs.
RateStart(cs) ==
    /\ callers = cs
    /\ min_interval \in 1..MaxInterval
    /\ rl_time \in min_interval..(min_interval + 1)
    /\ last_request_time = 0
    /\ rl_pc = [p \in cs |-> "idle"]
    /\ current_time = [p \in cs |-> 0]
    /\ wake_at = [p \in cs |-> 0]
    /\ slept = [p \in cs |-> FALSE]
    /\ grant_log = <<>>

InitRate ==
    /\ RateStart({1})
    /\ text = <<>>
    /\ max_chunk_size = 1
    /\ SplitStart
    /\ SynthIdle
    /\ TokenStart
    /\ RunIdle

NextRate ==
    \/ \E p \in callers : ReadClock(p)
    \/ \E p \in callers : CheckInterval(p)
    \/ \E p \in callers : Wake(p)
    \/ \E p \in callers : Grant(p)
    \/ TimePasses

SpecRate == InitRate /\ [][NextRate]_vars

\* The same limiter called from two execution contexts at once; the class
\* holds no lock, so the steps of the two calls interleave freely.
InitRateShared ==
    /\ RateStart({1, 2})
    /\ text = <<>>
    /\ max_chunk_size = 1
    /\ SplitStart
    /\ SynthIdle
    /\ TokenStart
    /\ RunIdle

SpecRateShared == InitRateShared /\ [][NextRate]_vars

(***************************************************************************)
(* Properties of the splitter (checked under SpecSplit).                   *)
(***************************************************************************)
NonWhitespace(s) == SelectSeq(s, LAMBDA c : c \notin Whitespace)

RECURSIVE ConcatTexts(_)
ConcatTexts(cs) ==
    IF cs = <<>> THEN <<>> ELSE Head(cs).text \o ConcatTexts(Tail(cs))

\* C1: every chunk split_text returns, whichever level produced it, is at
\* most max_chunk_size characters long.
C1_ChunkBound ==
    split_pc = "done" =>
        \A i \in 1..Len(text_chunks) : Len(text_chunks[i].text) <= max_chunk_size

\* A whitespace-free text longer than max_chunk_size went down to the hard
\* cut and came back as several chunks, one of them full.
C1_Witness ==
    /\ split_pc = "done"
    /\ Len(text) > max_chunk_size
    /\ \A k \in 1..Len(text) : text[k] = "a"
    /\ Len(text_chunks) >= 2
    /\ \E i \in 1..Len(text_chunks) : Len(text_chunks[i].text) = max_chunk_size

\* C2: the chunks, concatenated in index order with whitespace removed, are
\* the normalized input with whitespace removed: no character is lost,
\* duplicated or reordered.
C2_NoCharacterLost ==
    split_pc = "done" =>
        NonWhitespace(ConcatTexts(text_chunks)) = NonWhitespace(_preprocess_text(text))

\* C3: the chunks carry the indices 0..n-1 in list order and none is empty.
C3_IndexContiguity ==
    split_pc = "done" =>
        \A i \in 1..Len(text_chunks) :
            /\ text_chunks[i].index = i - 1
            /\ text_chunks[i].text # <<>>

\* A split into at least three chunks whose first unit did not fit.
C3_Witness ==
    /\ split_pc = "done"
    /\ Len(text_chunks) >= 3
    /\ Len(strip(re_split("word_boundaries", _preprocess_text(text))[1])) > max_chunk_size

(***************************************************************************)
(* Properties of the synthesis loop (checked under Spec).                  *)
(***************************************************************************)
Positions == 1..Len(chunks)

\* the chunk's text is not empty after clean_text_for_synthesis
Speakable(i) == strip(clean_text_for_synthesis(chunks[i].text)) # <<>>

\* synthesize_chunk has finished for position i (returned or raised)
Finished(i) == Len(audio_files) >= i

\* the run went through the whole list and ended, without cancellation
Completed == pc \in {"returned", "raised"} /\ chunks # <<>>

\* the result of chunk i: its artifact, or the failure marker
ResultOf(i) == IF chunks[i].processed THEN chunks[i].audio_file ELSE "None"

\* the number of failed positions before i
FailedBefore(i) == Cardinality({k \in failed : k < i})

C5_RetryBound ==
    \A i \in Positions :
        /\ calls[i] <= max_retries
        /\ (synth_mode[i] = "fail" /\ Speakable(i) /\ Finished(i)) =>
              /\ calls[i] = max_retries
              /\ i \in failed
              /\ ~chunks[i].processed
              /\ audio_files[i] = "None"

\* An always-failing chunk that was retried and has been given up.
C5_Witness ==
    \E i \in Positions :
        /\ synth_mode[i] = "fail"
        /\ Speakable(i)
        /\ Finished(i)
        /\ max_retries >= 2
        /\ calls[i] = max_retries

\* C6: a completed run went through every chunk; each always-failing chunk
\* got max_retries attempts of its own and each always-succeeding chunk one
\* attempt and its artifact, whatever happened to the chunks before it; the
\* run returns when one chunk can succeed.
C6_FailureDoesNotAbort ==
    Completed =>
        /\ Len(audio_files) = Len(chunks)
        /\ \A i \in Positions :
              /\ (synth_mode[i] = "fail" /\ Speakable(i)) =>
                    (calls[i] = max_retries /\ grants[i] = max_retries /\ i \in failed)
              /\ (synth_mode[i] = "ok" /\ Speakable(i)) =>
                    /\ calls[i] = 1
                    /\ chunks[i].processed
                    /\ audio_files[i] = output_path(chunks[i])
        /\ (\E i \in Positions : synth_mode[i] = "ok" /\ Speakable(i)) => pc = "returned"

\* A returned run: an always-failing chunk, retried, then a succeeding one,
\* then another always-failing one.
C6_Witness ==
    /\ pc = "returned"
    /\ Len(chunks) = 3
    /\ max_retries >= 2
    /\ \A i \in Positions : Speakable(i)
    /\ synth_mode = <<"fail", "ok", "fail">>
    /\ calls = <<max_retries, 1, max_retries>>

\* C7: synthesize_chunks raises SynthesizerError exactly when no chunk was
\* synthesized, and returns when at least one was.
C7_RaisesIffNoneSynthesized ==
    /\ pc = "raised" => \A i \in Positions : ~chunks[i].processed
    /\ pc = "returned" => \E i \in Positions : chunks[i].processed
    /\ (pc = "loop" /\ cur > Len(chunks)) =>
          (ENABLED RunRaises <=> \A i \in Positions : ~chunks[i].processed)

\* Every chunk of a list of two or more was tried and failed, and the run raised.
C7_Witness ==
    /\ pc = "raised"
    /\ Len(chunks) >= 2
    /\ Len(audio_files) = Len(chunks)
    /\ \E i \in Positions : calls[i] >= 1

(***************************************************************************)
(* Properties of the token manager (checked under SpecToken).              *)
(***************************************************************************)
TokenCalls == 1..Len(token_log)

\* the call was made with a token cached and now + 10 minutes < token_expires_at
InWindow(c) ==
    /\ c.token_before # NoToken
    /\ c.expires_before # NoExpiry
    /\ c.at + 10 < c.expires_before

\* C8: a call of get_iam_token() inside the validity window returns the
\* cached token without an exchange, and two such calls in the same window
\* return the same value; a call with no token cached, or with
\* now + 10 minutes >= token_expires_at, performs exactly one exchange.
C8_TokenReuse ==
    /\ \A k \in TokenCalls :
          ~token_log[k].force =>
              /\ InWindow(token_log[k]) =>
                    /\ token_log[k].exchanged = 0
                    /\ token_log[k].result = token_log[k].token_before
                    /\ token_log[k].token_after = token_log[k].token_before
              /\ ~InWindow(token_log[k]) => token_log[k].exchanged = 1
    /\ \A j \in TokenCalls : \A k \in TokenCalls :
          ( /\ j < k
            /\ ~token_log[j].force /\ ~token_log[k].force
            /\ InWindow(token_log[j]) /\ InWindow(token_log[k])
            /\ token_log[j].expires_before = token_log[k].expires_before
            /\ \A m \in (j + 1)..(k - 1) : ~token_log[m].force )
          => token_log[j].result = token_log[k].result
    /\ exchanges = Cardinality({k \in TokenCalls : token_log[k].exchanged = 1})

\* A token is fetched, returned from the cache five minutes later, and
\* fetched again once the clock is within ten minutes of its expiry.
C8_Witness ==
    /\ Len(token_log) = 3
    /\ \A k \in TokenCalls : ~token_log[k].force
    /\ token_log[1].exchanged = 1 /\ token_log[1].result # <<"raised">>
    /\ InWindow(token_log[2]) /\ token_log[2].at > token_log[1].at
    /\ token_log[2].result = token_log[1].result
    /\ ~InWindow(token_log[3]) /\ token_log[3].at < token_log[3].expires_before
    /\ token_log[3].exchanged = 1

C10_GrantSpacing ==
    /\ \A k \in 2..Len(grant_log) :
          grant_log[k].at - grant_log[k - 1].at >= min_interval
    /\ grant_log # <<>> => last_request_time = grant_log[Len(grant_log)].at

\* Three grants: the second came right after the first and had to sleep
\* the whole interval, the third came late and did not sleep.
C10_Witness ==
    /\ Len(grant_log) = 3
    /\ min_interval >= 2
    /\ grant_log[2].slept
    /\ grant_log[2].at - grant_log[1].at = min_interval
    /\ ~grant_log[3].slept
    /\ grant_log[3].at - grant_log[2].at > min_interval

(***************************************************************************)
(* Properties of one call of synthesize_chunk (checked under Spec).        *)
(***************************************************************************)
\* synthesize_chunk is running for position i
InCall(i) == cur = i /\ pc \in {"wait", "synth", "sleep", "refresh"}

\* the last call of synthesize_chunk that ended was for position i
CallOver(i) == Len(audio_files) = i /\ pc \in {"loop", "returned", "raised"}

\* events is the log of the call for position i
LogOf(i) == InCall(i) \/ CallOver(i)

\* the entries of a log of one kind
OfKind(log, kind) == SelectSeq(log, LAMBDA e : e.kind = kind)

\* C11: a chunk whose text is empty after clean_text_for_synthesis fails for
\* good at once: its call raised without a rate-limiter grant, a synthesis
\* call, a backoff sleep or a token refresh, and the loop is at the next
\* chunk; a completed run went through every chunk.
C11_EmptyAfterCleanupNoRetry ==
    /\ \A i \in Positions :
          (~Speakable(i) /\ Finished(i)) =>
              /\ i \in failed
              /\ audio_files[i] = "None"
              /\ ~chunks[i].processed
              /\ grants[i] = 0
              /\ calls[i] = 0
              /\ CallOver(i) => events = <<>>
              /\ (CallOver(i) /\ pc = "loop") => cur = i + 1
    /\ \A i \in Positions :
          (~Speakable(i) /\ ~Finished(i)) => ~InCall(i)
    /\ Completed => \A i \in Positions : Finished(i)

\* A chunk with nothing to say was given up and the chunk after it was
\* synthesized.
C11_Witness ==
    \E i \in Positions :
        /\ ~Speakable(i)
        /\ i \in failed
        /\ i < Len(chunks)
        /\ chunks[i + 1].processed
        /\ calls[i + 1] >= 1

(***************************************************************************)
(* More properties of the splitter (checked under SpecSplit).              *)
(***************************************************************************)
\* C12: split_text and process_text raise TextProcessorError exactly when
\* the normalized text is empty, which is when the input is empty or all
\* whitespace; for every other input they return at least one chunk.
C12_ErrorIffEmpty ==
    /\ _preprocess_text(text) = <<>> <=> (text = <<>> \/ \A k \in 1..Len(text) : text[k] \in Whitespace)
    /\ split_pc = "error" => _preprocess_text(text) = <<>>
    /\ split_pc \in {"done", "processed"} =>
          /\ _preprocess_text(text) # <<>>
          /\ Len(text_chunks) >= 1
          /\ \A k \in 1..Len(text_chunks) : text_chunks[k].text # <<>>

\* process_text returned several chunks for a text that starts and ends with
\* whitespace.
C12_Witness ==
    /\ split_pc = "processed"
    /\ Len(text_chunks) >= 2
    /\ text[1] \in Whitespace
    /\ text[Len(text)] \in Whitespace

(***************************************************************************)
(* Properties of the retry loop of synthesize_chunk (checked under Spec).  *)
(***************************************************************************)
\* the attempts (synthesis calls) among the first k entries of a log
AttemptsIn(log, k) == Len(OfKind(SubSeq(log, 1, k), "synthesize"))

\* C13: every model.synthesize call, first attempt or retry, comes right
\* after one wait_if_needed grant of its own attempt, and every grant is
\* followed by the call it was obtained for: per chunk the grants equal the
\* calls, but for the one grant whose call is about to be made.
C13_GrantPerCall ==
    /\ \A i \in Positions :
          /\ calls[i] <= grants[i]
          /\ grants[i] <= calls[i] + 1
          /\ grants[i] # calls[i] => (cur = i /\ pc \in {"synth", "interrupted"})
          /\ (InCall(i) /\ pc = "synth") => grants[i] = calls[i] + 1
          /\ LogOf(i) =>
                /\ Len(OfKind(events, "grant")) = grants[i]
                /\ Len(OfKind(events, "synthesize")) = calls[i]
    /\ \A k \in 1..Len(events) :
          /\ events[k].kind = "synthesize" =>
                /\ k > 1
                /\ events[k - 1].kind = "grant"
                /\ events[k - 1].arg = AttemptsIn(events, k - 1)
          /\ events[k].kind = "grant" =>
                /\ events[k].arg = AttemptsIn(events, k)
                /\ k < Len(events) => events[k + 1].kind = "synthesize"
                /\ k = Len(events) => pc \in {"synth", "interrupted"}

\* A chunk that was synthesized at its last attempt, after two failures.
C13_Witness ==
    \E i \in Positions :
        /\ CallOver(i)
        /\ chunks[i].processed
        /\ calls[i] = 3
        /\ grants[i] = 3

(***************************************************************************)
(* Paragraphs (checked under SpecSplit).                                   *)
(***************************************************************************)
\* the non-empty pieces between paragraph breaks, stripped
ParagraphsOf(s) ==
    LET pieces == re_split("paragraph_breaks", s)
    IN  SelectSeq([k \in 1..Len(pieces) |-> strip(pieces[k])], LAMBDA q : q # <<>>)

RECURSIVE ParagraphsOfChunks(_, _)
ParagraphsOfChunks(cs, k) ==
    IF k > Len(cs) THEN <<>>
    ELSE ParagraphsOf(cs[k].text) \o ParagraphsOfChunks(cs, k + 1)

\* C14: a paragraph of the normalized text that is no longer than
\* max_chunk_size lies whole, as a paragraph, in one returned chunk; when
\* every paragraph fits, the paragraphs of the chunks are the paragraphs of
\* the text, in order.
C14_FittingParagraphWhole ==
    split_pc = "done" =>
        LET paragraphs == ParagraphsOf(_preprocess_text(text))
        IN  /\ \A j \in 1..Len(paragraphs) :
                  Len(paragraphs[j]) <= max_chunk_size =>
                      \E k \in 1..Len(text_chunks) :
                          \E m \in 1..Len(ParagraphsOf(text_chunks[k].text)) :
                              ParagraphsOf(text_chunks[k].text)[m] = paragraphs[j]
            /\ (\A j \in 1..Len(paragraphs) : Len(paragraphs[j]) <= max_chunk_size) =>
                  ParagraphsOfChunks(text_chunks, 1) = paragraphs

\* A text of two paragraphs that do not fit one chunk together, the first of
\* them two words on two lines that just fit.
C14_Witness ==
    /\ split_pc = "done"
    /\ Len(text_chunks) = 2
    /\ Len(ParagraphsOf(_preprocess_text(text))) = 2
    /\ ParagraphsOf(_preprocess_text(text))[1] = <<"a", "\n", "a">>
    /\ max_chunk_size = 3

(***************************************************************************)
(* Cancellation (checked under Spec).                                      *)
(***************************************************************************)
\* C15 as stated: when a run is cancelled, the artifacts of the chunks
\* synthesized so far are what the caller of synthesize_chunks is given.
C15_PartialResultReported ==
    pc = "interrupted" =>
        \A i \in Positions :
            chunks[i].processed =>
                \E k \in 1..Len(valid_audio_files) :
                    valid_audio_files[k] = chunks[i].audio_file

(***************************************************************************)
(* Properties of the application (checked under SpecRun).                  *)
(***************************************************************************)
\* a required variable is not set, the private key is not a key, or the
\* algorithm is set to something other than RSA_2048
BadCredentials ==
    \/ ~credentials.key_id
    \/ ~credentials.service_account_id
    \/ credentials.private_key \in {"absent", "malformed"}
    \/ credentials.key_algorithm \notin {"unset", "RSA_2048"}

Taken(name) == \E k \in 1..Len(run_log) : run_log[k] = name

\* C16: with missing or malformed credentials run ends at its
\* authentication step at the latest and returns False: no text is read or
\* chunked, synthesize_chunks is not entered, and there is no synthesis call
\* and no rate-limiter grant.
C16_BadCredentialsFatalAtStartup ==
    BadCredentials =>
        /\ ~Taken("_read_input_file")
        /\ ~Taken("_process_text")
        /\ ~Taken("_synthesize_speech")
        /\ run_pc \in {"validate", "auth", "done"}
        /\ run_result # "True"
        /\ Taken("_test_authentication") => (run_pc = "done" /\ run_result = "False")
        /\ chunks = <<>>
        /\ pc = "idle"
        /\ calls = <<>>
        /\ grants = <<>>
        /\ events = <<>>

\* A run with every variable set and a key of another algorithm, ended by
\* its authentication step.
C16_Witness ==
    /\ credentials = [GoodCredentials EXCEPT !.key_algorithm = "RSA_4096"]
    /\ run_log = <<"_validate_inputs", "_test_authentication">>
    /\ run_pc = "done"
    /\ run_result = "False"

(***************************************************************************)
(* Token expiry under the SDK (checked under SpecExpiry).                  *)
(***************************************************************************)
\* C17 as stated: when synthesis fails only while the SDK holds an expired
\* token and every token exchange succeeds, a completed run has synthesized
\* every chunk and given up none, whatever max_retries is.
C17_SurvivesTokenExpiry ==
    (/\ Completed
     /\ exchange_mode = "ok"
     /\ \A i \in Positions : Speakable(i) /\ synth_mode[i] = "ok") =>
        /\ failed = {}
        /\ \A i \in Positions : chunks[i].processed

\* The same for a configuration with a retry (max_retries >= 2).
SurvivesTokenExpiryWithRetry == max_retries >= 2 => C17_SurvivesTokenExpiry

(***************************************************************************)
(* The rate limiter under two callers (checked under SpecRateShared).      *)
(***************************************************************************)
\* C18 as stated: with two callers on one limiter, any two consecutive
\* grants, whoever got them, are at least min_interval apart.
C18_SharedGrantSpacing ==
    \A k \in 2..Len(grant_log) :
        grant_log[k].at - grant_log[k - 1].at >= min_interval

(***************************************************************************)
(* Backoff and refresh between attempts (checked under Spec).              *)
(***************************************************************************)
\* the failed attempts among the first k entries of a log
FailuresIn(log, k) ==
    Len(SelectSeq(SubSeq(log, 1, k), LAMBDA e : e.kind = "synthesize" /\ e.arg = 0))

Sleeps == OfKind(events, "sleep")

\* C19: the k-th sleep of a call comes right after its k-th failed attempt,
\* for k < max_retries, and lasts retry_delay * 2^(k-1); the failure of
\* attempt max_retries is followed by no sleep, so a call that gave up after
\* max_retries failures slept max_retries - 1 times.
C19_BackoffSchedule ==
    /\ Len(Sleeps) <= max_retries - 1
    /\ \A k \in 1..Len(Sleeps) : Sleeps[k].arg = retry_delay * 2^(k - 1)
    /\ \A n \in 1..Len(events) :
          /\ events[n].kind = "sleep" =>
                /\ n > 1
                /\ events[n - 1] = event("synthesize", 0)
                /\ FailuresIn(events, n) = Len(OfKind(SubSeq(events, 1, n), "sleep"))
                /\ FailuresIn(events, n) < max_retries
          /\ (events[n] = event("synthesize", 0) /\ n < Len(events)) =>
                events[n + 1].kind = "sleep"
          /\ (events[n] = event("synthesize", 0) /\ n = Len(events)) =>
                \/ pc \in {"sleep", "interrupted"}
                \/ FailuresIn(events, n) = max_retries
    /\ \A i \in Positions :
          (CallOver(i) /\ i \in failed /\ Speakable(i)) =>
              /\ FailuresIn(events, Len(events)) = max_retries
              /\ Len(Sleeps) = max_retries - 1
              /\ events[Len(events)] = event("synthesize", 0)

\* A call with three attempts and a base delay of 2 gave up: it slept 2,
\* then 4.
C19_Witness ==
    \E i \in Positions :
        /\ CallOver(i)
        /\ i \in failed
        /\ max_retries = 3
        /\ retry_delay = 2
        /\ Len(Sleeps) = 2
        /\ Sleeps[1].arg = 2
        /\ Sleeps[2].arg = 4

\* C20: between a failed attempt and the next attempt of a call there is
\* one token refresh, right after the backoff sleep and right before the
\* next rate-limiter grant; the call goes on to that grant and attempt
\* whether the refresh succeeded or raised, with the attempt number one
\* higher than before, so that an always-failing chunk gets max_retries
\* attempts whatever its refreshes did.
C20_OneRefreshBetweenAttempts ==
    /\ \A n \in 1..Len(events) :
          /\ events[n].kind = "sleep" =>
                /\ n < Len(events) => events[n + 1].kind = "refresh"
                /\ n = Len(events) => pc \in {"refresh", "interrupted"}
          /\ events[n].kind = "refresh" =>
                /\ n > 1
                /\ events[n - 1].kind = "sleep"
                /\ n < Len(events) => events[n + 1] = event("grant", FailuresIn(events, n))
                /\ n = Len(events) => pc \in {"wait", "interrupted"}
          /\ (events[n].kind = "grant" /\ events[n].arg > 0) =>
                /\ n > 3
                /\ events[n - 1].kind = "refresh"
                /\ events[n - 2].kind = "sleep"
                /\ events[n - 3] = event("synthesize", 0)
    /\ \A i \in Positions :
          (CallOver(i) /\ synth_mode[i] = "fail" /\ Speakable(i)) =>
              /\ AttemptsIn(events, Len(events)) = max_retries
              /\ Len(OfKind(events, "refresh")) = max_retries - 1

\* A call whose first attempt failed and whose refresh raised made a second
\* attempt all the same, and that one succeeded.
C20_Witness ==
    \E i \in Positions :
        /\ CallOver(i)
        /\ chunks[i].processed
        /\ events = <<event("grant", 0), event("synthesize", 0),
                      event("sleep", retry_delay), event("refresh", 0),
                      event("grant", 1), event("synthesize", 1)>>

(***************************************************************************)
(* The order of the loop of synthesize_chunks (checked under Spec).        *)
(***************************************************************************)
\* position i has its final outcome: synthesized, or failed for good
FinalOutcome(i) == Finished(i) /\ (chunks[i].processed \/ i \in failed)

\* something was done for position i: a grant, a synthesis call, or a call
\* of synthesize_chunk that is under way (its sleeps and refreshes)
Touched(i) == grants[i] > 0 \/ calls[i] > 0 \/ InCall(i)

InOrderState ==
    \A i \in Positions :
        /\ Touched(i) => \A j \in 1..(i - 1) : FinalOutcome(j)
        /\ Finished(i) => FinalOutcome(i)
        /\ Finished(i) => ~InCall(i)
        /\ (Finished(i) /\ i < Len(chunks) /\ ~Finished(i + 1)) =>
              (pc = "interrupted" \/ cur = i + 1)

\* a step that does something for position i (a grant, a synthesis call, a
\* sleep or a refresh, the marking of the chunk) is a step of the call for
\* i, made while i has no outcome yet and no later position was touched
InOrderStep ==
    \A i \in Positions :
        (\/ grants'[i] # grants[i]
         \/ calls'[i] # calls[i]
         \/ chunks'[i] # chunks[i]
         \/ cur = i /\ Len(events') > Len(events)) =>
            /\ cur = i
            /\ ~Finished(i)
            /\ \A j \in 1..(i - 1) : FinalOutcome(j)
            /\ \A j \in (i + 1)..Len(chunks) : ~Touched(j) /\ ~Finished(j)

\* C21: synthesize_chunks goes through the chunks one at a time in input
\* order: nothing is done for a chunk before every chunk in front of it has
\* its final outcome, and nothing is done for a chunk once it has its
\* outcome or a later chunk was started.
C21_SequentialInOrder == [](InOrderState) /\ [][InOrderStep]_vars

\* The second chunk is being retried after the first was given up, the
\* third not started.
C21_Witness ==
    /\ Len(chunks) = 3
    /\ 1 \in failed
    /\ calls[1] = max_retries
    /\ InCall(2)
    /\ calls[2] >= 1
    /\ ~Touched(3)

(***************************************************************************)
(* The processed flag and the artifact of a chunk (checked under           *)
(* SpecRerun).                                                             *)
(***************************************************************************)
\* audio_file is set exactly for the processed chunks, to the chunk's path
ArtifactIffProcessed ==
    \A i \in Positions :
        /\ chunks[i].processed <=> chunks[i].audio_file # "None"
        /\ chunks[i].processed => chunks[i].audio_file = output_path(chunks[i])

\* a processed chunk is left as it is, and a call of synthesize_chunk on it
\* takes no grant, makes no synthesis call and returns the artifact
ProcessedIsFinal ==
    \A i \in Positions :
        chunks[i].processed =>
            /\ chunks'[i] = chunks[i]
            /\ grants'[i] \in {grants[i], 0}
            /\ calls'[i] \in {calls[i], 0}
            /\ (cur = i /\ pc = "loop") =>
                  (\/ pc' = "interrupted"
                   \/ /\ audio_files' = Append(audio_files, chunks[i].audio_file)
                      /\ grants'[i] = grants[i]
                      /\ calls'[i] = calls[i]
                      /\ events' = <<>>
                      /\ pc' = "loop")

\* C22: a chunk's audio_file is set exactly when its processed flag is
\* true, and the pair is written once: a call of synthesize_chunk on a
\* processed chunk takes no grant, makes no synthesis call, returns the
\* stored artifact and leaves the chunk unchanged.
C22_ProcessedWrittenOnce == [](ArtifactIffProcessed) /\ [][ProcessedIsFinal]_vars

\* In a second run the first chunk, synthesized in the first run, was
\* returned from the stored artifact while the second chunk, which had
\* failed in the first run, was synthesized with a synthesis call.
C22_Witness ==
    /\ Len(chunks) >= 2
    /\ Len(audio_files) >= 2
    /\ chunks[1].processed
    /\ calls[1] = 0
    /\ grants[1] = 0
    /\ audio_files[1] = output_path(chunks[1])
    /\ chunks[2].processed
    /\ calls[2] >= 1

(***************************************************************************)
(* The packing rule of the splitter (checked under SpecSplit).             *)
(***************************************************************************)
\* the first whitespace-free token of s
first_word(s) == SubSeq(s, 1, RunEnd(s, 1, {"a", "."}))

\* the text has word-level units only: one paragraph, no sentence boundary
WordLevelOnly(t) == \A k \in 1..Len(t) : t[k] \in {"a", " "}

\* C23: a chunk is sealed only when the next unit does not fit.  In a text
\* whose only units are words (one paragraph without a sentence boundary,
\* the separator being one space), every returned chunk but the last is so
\* full that the first word of the chunk after it could not be appended.
C23_SealedOnlyWhenNextDoesNotFit ==
    (split_pc = "done" /\ WordLevelOnly(text)) =>
        \A k \in 1..(Len(text_chunks) - 1) :
            Len(text_chunks[k].text) + 1 + Len(first_word(text_chunks[k + 1].text))
                > max_chunk_size

(***************************************************************************)
(* The normal form of _preprocess_text (checked under SpecSplit).          *)
(***************************************************************************)
\* s has a run of n or more characters of cls
HasRun(s, cls, n) ==
    \E i \in 1..(Len(s) - n + 1) : \A k \in i..(i + n - 1) : s[k] \in cls

\* a line of s starts or ends with a space or a tab
UntrimmedLine(s) ==
    \/ s # <<>> /\ (Head(s) \in Whitespace \/ s[Len(s)] \in Whitespace)
    \/ \E i \in 1..(Len(s) - 1) :
          \/ s[i] = "\n" /\ s[i + 1] \in {" ", "\t"}
          \/ s[i] \in {" ", "\t"} /\ s[i + 1] = "\n"

\* C24: the text returned by _preprocess_text has no carriage return, no
\* run of two or more spaces or tabs, no line with leading or trailing
\* whitespace and no run of three or more newlines, also when the blank
\* lines of the input hold spaces or tabs.
C24_PreprocessNormalForm ==
    split_pc = "done" =>
        LET p == _preprocess_text(text)
        IN  /\ ~HasRun(p, {"\r"}, 1)
            /\ ~HasRun(p, {" ", "\t"}, 2)
            /\ ~UntrimmedLine(p)
            /\ ~HasRun(p, {"\n"}, 3)

(***************************************************************************)
(* The hard cut of an over-long word (checked under SpecSplit).            *)
(***************************************************************************)
\* the whitespace-free tokens of s, in order
RECURSIVE Tokens(_)
Tokens(s) ==
    LET t == lstrip(s)
    IN  IF t = <<>> THEN <<>>
        ELSE LET e == RunEnd(t, 1, {"a", ".", "#", "!", "?"})
             IN  <<SubSeq(t, 1, e)>> \o Tokens(SubSeq(t, e + 1, Len(t)))

\* the tokens of the chunks, in chunk order
RECURSIVE ChunkTokens(_)
ChunkTokens(cs) ==
    IF cs = <<>> THEN <<>> ELSE Tokens(Head(cs).text) \o ChunkTokens(Tail(cs))

\* the slices of w: consecutive pieces of m characters, the last one holding
\* what is left
Slices(w, m) ==
    [j \in 1..((Len(w) + m - 1) \div m) |->
        SubSeq(w, (j - 1) * m + 1, IF j * m < Len(w) THEN j * m ELSE Len(w))]

\* the tokens with every token longer than m replaced by its slices
RECURSIVE Sliced(_, _)
Sliced(ws, m) ==
    IF ws = <<>> THEN <<>>
    ELSE (IF Len(Head(ws)) > m THEN Slices(Head(ws), m) ELSE <<Head(ws)>>)
             \o Sliced(Tail(ws), m)

OnlyTerminators(w) == \A k \in 1..Len(w) : w[k] \in Terminators

\* cs is xs, but for tokens made of sentence terminators only that are left
\* out (the terminators _split_by_sentences drops, see C2)
RECURSIVE KeptTokens(_, _)
KeptTokens(cs, xs) ==
    IF xs = <<>> THEN cs = <<>>
    ELSE \/ cs # <<>> /\ Head(cs) = Head(xs) /\ KeptTokens(Tail(cs), Tail(xs))
         \/ OnlyTerminators(Head(xs)) /\ KeptTokens(cs, Tail(xs))

\* a chunk boundary falls inside a token only where an over-long token was
\* cut into its slices
CutOnlyLongWords ==
    KeptTokens(ChunkTokens(text_chunks),
               Sliced(Tokens(_preprocess_text(text)), max_chunk_size))

\* every slice of every over-long token of the text is full
AllSlicesFull ==
    LET ws == Tokens(_preprocess_text(text))
    IN  \A i \in 1..Len(ws) :
            Len(ws[i]) > max_chunk_size =>
                \A j \in DOMAIN Slices(ws[i], max_chunk_size) :
                    Len(Slices(ws[i], max_chunk_size)[j]) = max_chunk_size

\* C25 as stated: a whitespace-free word longer than max_chunk_size comes
\* back as slices of exactly max_chunk_size characters each, and no shorter
\* token is split across two chunks.
C25_HardCutExactSlices ==
    split_pc = "done" => CutOnlyLongWords /\ AllSlicesFull

\* C25: a whitespace-free word longer than max_chunk_size comes back as its
\* consecutive slices of max_chunk_size characters, the last slice holding
\* the 1..max_chunk_size characters that are left; a token of at most
\* max_chunk_size characters is never split across two chunks.
C25_HardCutSlices ==
    split_pc = "done" => CutOnlyLongWords

\* A word of four characters was cut at 3 into a full slice and a slice of
\* one character, next to a short word that stayed whole.
C25_Witness ==
    /\ split_pc = "done"
    /\ max_chunk_size = 3
    /\ Tokens(_preprocess_text(text)) = <<<<"a", "a", "a", "a">>, <<".">>>>
    /\ ChunkTokens(text_chunks) = <<<<"a", "a", "a">>, <<"a">>, <<".">>>>

(***************************************************************************)
(* Termination of synthesize_chunks (checked under SpecLive).              *)
(***************************************************************************)
\* synthesize_chunks has returned or raised
Terminated == pc \in {"returned", "raised"}

\* every chunk is synthesized or failed for good, never both, and its
\* entry in audio_files says which
AllFinal ==
    /\ Len(audio_files) = Len(chunks)
    /\ \A i \in Positions :
          /\ chunks[i].processed # (i \in failed)
          /\ chunks[i].processed => audio_files[i] = chunks[i].audio_file
          /\ i \in failed => audio_files[i] = "None"
          /\ ~InCall(i)

\* C26: whatever the synthesis calls and the token refreshes answer,
\* synthesize_chunks comes to an end, and then every chunk has exactly one
\* final outcome, synthesized or failed for good; none is left pending or
\* in an attempt.
C26_Terminates == <>Terminated /\ [](Terminated => AllFinal)

\* The run ended with one chunk given up after max_retries attempts and one
\* synthesized at its third attempt after two failed refreshes.
C26_Witness ==
    /\ Terminated
    /\ \E i \in Positions : i \in failed /\ calls[i] = max_retries
    /\ \E i \in Positions : chunks[i].processed /\ calls[i] = 3
    /\ exchange_mode = "flaky"

(***************************************************************************)
(* The list handed to the merge (checked under SpecRun).                   *)
(***************************************************************************)
\* the positions of the synthesized chunks, in increasing order
SynthesizedPositions ==
    SelectSeq([i \in Positions |-> i], LAMBDA i : chunks[i].processed)

\* the artifacts of the synthesized chunks, in input order
ArtifactsInOrder ==
    [k \in 1..Len(SynthesizedPositions) |->
        output_path(chunks[SynthesizedPositions[k]])]

\* C27: the list synthesize_chunks returns, which run hands to the merge as
\* it is, holds the artifacts of the synthesized chunks and nothing else,
\* each once, in increasing input position, whichever chunks failed and
\* however many attempts a chunk took.
C27_MergeInputInOrder ==
    /\ pc = "returned" =>
          /\ valid_audio_files = ArtifactsInOrder
          /\ \A k, l \in 1..Len(valid_audio_files) :
                k # l => valid_audio_files[k] # valid_audio_files[l]
    /\ (run_pc = "merge" \/ Taken("_merge_audio")) => pc = "returned"

\* The merge was given the artifacts of the first and the third chunk, the
\* third synthesized at a retry, the second chunk having failed for good.
C27_Witness ==
    /\ Taken("_merge_audio")
    /\ Len(chunks) = 3
    /\ failed = {2}
    /\ calls[3] >= 2
    /\ valid_audio_files = <<output_path(chunks[1]), output_path(chunks[3])>>

(***************************************************************************)
(* The size of the text given to model.synthesize (checked under           *)
(* SpecSplit).                                                             *)
(***************************************************************************)
\* C28: for every chunk of split_text, the text synthesize_chunk passes to
\* model.synthesize, clean_text_for_synthesis(chunk.text), is at most
\* max_chunk_size characters long.
C28_CleanedTextWithinLimit ==
    split_pc = "done" =>
        \A i \in 1..Len(text_chunks) :
            Len(clean_text_for_synthesis(text_chunks[i].text)) <= max_chunk_size

(***************************************************************************)
(* The cleaned form of clean_text_for_synthesis (checked under SpecClean). *)
(***************************************************************************)
\* the lengths of the maximal runs of c in s
RunLengths(s, c) ==
    {j - i + 1 : <<i, j>> \in
        {p \in (1..Len(s)) \X (1..Len(s)) :
            /\ p[1] <= p[2]
            /\ \A k \in p[1]..p[2] : s[k] = c
            /\ (p[1] = 1 \/ s[p[1] - 1] # c)
            /\ (p[2] = Len(s) \/ s[p[2] + 1] # c)}}

CleanedForm(s) ==
    /\ ~HasRun(s, Whitespace, 2)
    /\ ~HasRun(s, {"!"}, 2)
    /\ ~HasRun(s, {"?"}, 2)
    /\ RunLengths(s, ".") \subseteq {1, 3}
    /\ \A k \in 1..Len(s) : s[k] \notin NotAllowed

\* C29: what clean_text_for_synthesis returns is in cleaned form: no run of
\* two or more whitespace characters, of "!" or of "?", every run of "." of
\* length 1 or 3, no character outside the allowlist; and cleaning it again
\* changes nothing.
C29_CleanedFormIdempotent ==
    clean_pc = "cleaned" =>
        /\ CleanedForm(clean_text)
        /\ clean_text_for_synthesis(clean_text) = clean_text

(***************************************************************************)
(* What synthesize_chunk gives back (checked under SpecAnyRetries).        *)
(***************************************************************************)
\* the artifacts recorded so far
ArtifactsRecorded ==
    Cardinality({i \in 1..Len(audio_files) : audio_files[i] # "None"})

\* C30: for every max_retries, 0 included, a call of synthesize_chunk on an
\* unprocessed chunk that does not raise returns an artifact path and has
\* set chunk.processed; so successful_chunks is the number of artifacts
\* recorded in audio_files.
C30_ReturnsArtifactOrRaises ==
    /\ \A i \in Positions :
          (Finished(i) /\ i \notin failed) =>
              /\ audio_files[i] # "None"
              /\ chunks[i].processed
    /\ pc # "idle" => successful_chunks = ArtifactsRecorded

====
